---- MODULE Spec2Model ----
(***************************************************************************)
(* Model of papers/221_jessurun/rebuild.py: the root locator, the command  *)
(* line pipeline (remote sync, conversion, output cleaning, build) and the *)
(* tex -> rst converter with its ordered table of regular-expression rules.*)
(* Texts are sequences of one-character strings, so that the regular       *)
(* expressions are matched character by character as re.sub matches them.  *)
(***************************************************************************)
EXTENDS Naturals, Integers, Sequences, FiniteSets, TLC

VARIABLES
  \* ---- root locator (_find_root_path) ----
  paper_dir,        \* depth of the directory holding rebuild.py (0 = filesystem root)
  git_dirs,         \* directories (depths on the ancestor chain) containing ".git"
  publisher_dirs,   \* directories containing "publisher"
  cur_rootpath,     \* the loop variable of _find_root_path
  walked,           \* number of executions of the loop body so far
  rl_pc,            \* "loop", "check", "returned", "exited", "idle"
  \* ---- command line pipeline (__main__ and the functions it calls) ----
  pc,               \* position of the invocation
  sync_flag,        \* parser.parse_args().sync_overleaf
  remotes,          \* configured remotes of the repository at rootpath: <<name, url>>
  environ,          \* value of OVERLEAF_CURRENT_REPO
  upstream,         \* tree of master in the overleaf repository
  tracking,         \* tree of the local ref overleaf/master, or NoRef
  worktree,         \* content of the four mirrored paths below paper_dir
  rst_dir,          \* whether paper_dir/sections_rst exists
  output_dir,       \* whether rootpath/output/221_jessurun exists
  pull_idx,         \* index of pull_path in the loop of sync_overleaf
  error,            \* uncaught exception of the invocation, or "none"
  log,              \* what the invocation has executed so far, in order
  start_tree,       \* worktree when the invocation started
  start_remotes,    \* remotes when the invocation started
  mirrored,         \* worktree at the end of every sync that completed so far
  runs,             \* number of invocations so far
  platform,         \* os the build subprocess ran on, "" before the build
  \* ---- converter (create_rst_sections) ----
  cv_pc,            \* "next_file", "rules", "flush", "written", "done", "idle"
  files_done,       \* section files written so far
  tex_text,         \* tex_file.read_text() of the file being converted
  file_text,        \* the text as rewritten so far
  rule_idx,         \* index in replace_spec of the next rule to apply
  footnotes,        \* the list footnotes of create_rst_sections
  rst_text,         \* what was written to the .rst file of the file read last
  makefigs_text,    \* figures/makefigs.tex
  sanitized_text    \* figures/makefigssanitized.tex

rlvars == <<paper_dir, git_dirs, publisher_dirs, cur_rootpath, walked, rl_pc>>

plvars == <<pc, sync_flag, remotes, environ, upstream, tracking, worktree, rst_dir,
            output_dir, pull_idx, error, log, start_tree, start_remotes, mirrored,
            runs, platform>>

cvvars == <<cv_pc, files_done, tex_text, file_text, rule_idx, footnotes, rst_text,
            makefigs_text, sanitized_text>>

vars == <<rlvars, plvars, cvvars>>

----------------------------------------------------------------------------
\* Root locator

\* Deepest directory of the modelled ancestor chain: 0 is the filesystem root.
MaxDepth == 3

\* Loop iterations that are counted; the loop itself has no bound.
MaxWalk == 6

Dirs == 0..MaxDepth

\* pathlib: Path.parent; the parent of the filesystem root is the root itself
Parent(d) == IF d = 0 THEN 0 ELSE d - 1

RootIdle ==
  /\ paper_dir = 0 /\ git_dirs = {} /\ publisher_dirs = {}
  /\ cur_rootpath = 0 /\ walked = 0 /\ rl_pc = "idle"

\* cur_rootpath = paper_dir
InitRootLocator ==
  /\ paper_dir \in Dirs
  /\ git_dirs \in SUBSET Dirs
  /\ publisher_dirs \in SUBSET Dirs
  /\ cur_rootpath = paper_dir
  /\ walked = 0
  /\ rl_pc = "loop"

\* while not cur_rootpath.joinpath(".git").exists(): cur_rootpath = cur_rootpath.parent
WalkUp ==
  /\ rl_pc = "loop"
  /\ cur_rootpath \notin git_dirs
  /\ walked < MaxWalk
  /\ cur_rootpath' = Parent(cur_rootpath)
  /\ walked' = walked + 1
  /\ UNCHANGED <<paper_dir, git_dirs, publisher_dirs, rl_pc>>
  /\ UNCHANGED <<plvars, cvvars>>

\* the loop condition is false: the marker exists in cur_rootpath
MarkerFound ==
  /\ rl_pc = "loop"
  /\ cur_rootpath \in git_dirs
  /\ rl_pc' = "check"
  /\ UNCHANGED <<paper_dir, git_dirs, publisher_dirs, cur_rootpath, walked>>
  /\ UNCHANGED <<plvars, cvvars>>

\* if not cur_rootpath.joinpath("publisher").exists(): sys.exit(1)
InvalidRoot ==
  /\ rl_pc = "check"
  /\ cur_rootpath \notin publisher_dirs
  /\ rl_pc' = "exited"
  /\ UNCHANGED <<paper_dir, git_dirs, publisher_dirs, cur_rootpath, walked>>
  /\ UNCHANGED <<plvars, cvvars>>

\* else: return cur_rootpath
ReturnRoot ==
  /\ rl_pc = "check"
  /\ cur_rootpath \in publisher_dirs
  /\ rl_pc' = "returned"
  /\ UNCHANGED <<paper_dir, git_dirs, publisher_dirs, cur_rootpath, walked>>
  /\ UNCHANGED <<plvars, cvvars>>

----------------------------------------------------------------------------
\* Command line pipeline

\* Invocations of the script that are followed.
MaxRuns == 2

\* A ref that does not exist: it holds none of the paths
NoRef == [p \in {"figures", "sections", "references.bib", "main.tex"} |-> {}]
Unset == "<unset>"
OverleafUrl == "git@example.com:user/repo.git"

\* for pull_path in "figures", "sections", "references.bib", "main.tex"
PullPaths == <<"figures", "sections", "references.bib", "main.tex">>

PathSet == {PullPaths[i] : i \in 1..Len(PullPaths)}

\* A path holds a set of <<file, version>>; a plain file holds itself, ".".
File(v) == {<<".", v>>}

\* The content of master at the overleaf repository; one path may be missing.
FullTree ==
  [p \in PathSet |->
     CASE p = "figures" -> {<<"makefigs.tex", "remote">>}
       [] p = "sections" -> {<<"intro.tex", "remote">>}
       [] OTHER -> File("remote")]

Without(tree, p) == [tree EXCEPT ![p] = {}]

UpstreamTrees == {FullTree, Without(FullTree, "references.bib"), Without(FullTree, "figures")}

\* An older commit of the overleaf repository, left by an earlier fetch
StaleTree ==
  [p \in PathSet |->
     CASE p = "figures" -> {<<"makefigs.tex", "old">>}
       [] p = "sections" -> {<<"intro.tex", "old">>, <<"gone.tex", "old">>}
       [] OTHER -> File("old")]

\* Local states of the mirrored paths when the script is started
LocalTrees ==
  {[p \in PathSet |->
      CASE p = "figures" -> f
        [] p = "sections" -> s
        [] p = "references.bib" -> b
        [] OTHER -> m] :
     f \in {{}, {<<"makefigs.tex", "local">>},
            {<<"makefigs.tex", "remote">>, <<"makefigssanitized.tex", "generated">>}},
     s \in {{}, {<<"intro.tex", "local">>, <<"draft.tex", "local">>}},
     b \in {{}, File("local")},
     m \in {File("local"), File("remote")}}

Names(rs) == {r[1] : r \in rs}

\* os.environ.get("OVERLEAF_CURRENT_REPO", None); "if not repo_name"
EnvMissing_EmptyAccepted(v) == v = Unset
EnvMissing(v) == v \in {Unset, ""}

\* The argument vectors handed to subprocess.run without a shell: one entry per
\* argument, each entry the words of that argument.
RemoteAddCmd(repo_name) == << <<"git", "remote", "add", "overleaf", repo_name>> >>
FetchCmd == << <<"git">>, <<"fetch">>, <<"overleaf">> >>
CheckoutCmd(p) == << <<"git">>, <<"--work-tree=papers/221_jessurun">>, <<"checkout">>,
                     <<"overleaf/master">>, <<"--">>, <<p>> >>

\* subprocess.run(cmd) executes the program named by the first argument
Launches(cmd) == cmd[1] = <<"git">>

Event(kind, arg, result) == [kind |-> kind, arg |-> arg, result |-> result]

Raise(exc) ==
  /\ pc' = "failed"
  /\ error' = exc

PipelineIdle ==
  /\ pc = "idle" /\ sync_flag = FALSE /\ remotes = {} /\ environ = Unset
  /\ upstream = FullTree /\ tracking = NoRef /\ worktree = FullTree
  /\ rst_dir = FALSE /\ output_dir = FALSE /\ pull_idx = 1 /\ error = "none"
  /\ log = <<>> /\ start_tree = FullTree /\ start_remotes = {} /\ mirrored = <<>>
  /\ runs = 0 /\ platform = ""

InitPipeline ==
  /\ pc = "main"
  /\ sync_flag \in BOOLEAN
  /\ remotes \in {{<<"origin", "o">>}, {<<"origin", "o">>, <<"overleaf", OverleafUrl>>}}
  /\ environ \in {Unset, "", OverleafUrl}
  /\ upstream \in UpstreamTrees
  /\ tracking \in IF "overleaf" \in Names(remotes) THEN {NoRef, StaleTree} ELSE {NoRef}
  /\ worktree \in LocalTrees
  /\ rst_dir \in BOOLEAN
  /\ output_dir \in BOOLEAN
  /\ pull_idx = 1
  /\ error = "none"
  /\ log = <<>>
  /\ start_tree = worktree
  /\ start_remotes = remotes
  /\ mirrored = <<>>
  /\ runs = 1
  /\ platform = ""

\* if parser.parse_args().sync_overleaf: sync_overleaf()
Main_IgnoresFlag == "ensure"
Main == IF sync_flag THEN "ensure" ELSE "convert"

ParseArgs ==
  /\ pc = "main"
  /\ pc' = Main
  /\ UNCHANGED <<sync_flag, remotes, environ, upstream, tracking, worktree, rst_dir,
                 output_dir, pull_idx, error, log, start_tree, start_remotes, mirrored,
                 runs, platform>>
  /\ UNCHANGED <<rlvars, cvvars>>

\* _ensure_overleaf_remote_exists()
EnsureOverleafRemoteExists ==
  /\ pc = "ensure"
  /\ LET existing_remotes == Names(remotes)
         listed == log \o <<Event("git remote", "", "0")>>
         asked == listed \o <<Event("environ.get", environ, "0")>>
     IN IF "overleaf" \in existing_remotes
        THEN /\ pc' = "fetch"
             /\ log' = listed
             /\ UNCHANGED <<remotes, error>>
        ELSE IF EnvMissing(environ)
        THEN /\ Raise("ValueError")
             /\ log' = asked
             /\ UNCHANGED remotes
        ELSE IF Launches(RemoteAddCmd(environ))
        THEN \* no check=True: the return code is not looked at
             \E rc \in {"0", "1"} :
               /\ remotes' = IF rc = "0" THEN remotes \cup {<<"overleaf", environ>>}
                                       ELSE remotes
               /\ log' = asked \o <<Event("git remote add", environ, rc)>>
               /\ pc' = "fetch"
               /\ UNCHANGED error
        ELSE /\ Raise("FileNotFoundError")
             /\ log' = asked \o <<Event("git remote add", environ, "FileNotFoundError")>>
             /\ UNCHANGED remotes
  /\ UNCHANGED <<sync_flag, environ, upstream, tracking, worktree, rst_dir, output_dir,
                 pull_idx, start_tree, start_remotes, mirrored, runs, platform>>
  /\ UNCHANGED <<rlvars, cvvars>>

\* check=True of the fetch: a non-zero return code raises CalledProcessError
FetchChecked_NoCheck(rc) == FALSE
FetchChecked(rc) == rc # "0"

\* _print_and_run("git", "fetch", "overleaf", cwd=rootpath, check=True, ...)
Fetch ==
  /\ pc = "fetch"
  /\ \E rc \in {"0", "1"} :
       /\ rc = "0" => "overleaf" \in Names(remotes) /\ Launches(FetchCmd)
       /\ log' = log \o <<Event("git fetch", "overleaf", rc)>>
       /\ tracking' = IF rc = "0" THEN upstream ELSE tracking
       /\ IF FetchChecked(rc)
          THEN Raise("CalledProcessError") /\ UNCHANGED pull_idx
          ELSE pc' = "mirror_rm" /\ pull_idx' = 1 /\ UNCHANGED error
  /\ UNCHANGED <<sync_flag, remotes, environ, upstream, worktree, rst_dir, output_dir,
                 start_tree, start_remotes, mirrored, runs, platform>>
  /\ UNCHANGED <<rlvars, cvvars>>

\* if os.path.isdir(dest_path): shutil.rmtree(dest_path)
\* elif os.path.isfile(dest_path): os.remove(dest_path)
RemoveLocal_Kept(content) == content
RemoveLocal(content) == {}

DeleteLocalCopy ==
  /\ pc = "mirror_rm"
  /\ LET pull_path == PullPaths[pull_idx] IN
       /\ worktree' = [worktree EXCEPT ![pull_path] = RemoveLocal(@)]
       /\ log' = IF worktree[pull_path] # {}
                 THEN log \o <<Event("rm", pull_path, "0")>>
                 ELSE log
  /\ pc' = "mirror_co"
  /\ UNCHANGED <<sync_flag, remotes, environ, upstream, tracking, rst_dir, output_dir,
                 pull_idx, error, start_tree, start_remotes, mirrored, runs, platform>>
  /\ UNCHANGED <<rlvars, cvvars>>

\* git checkout <tree> -- <path>: the files of the tree below the path are written
\* over the working tree; files the tree does not have are left alone
CheckedOut(content, tree, p) ==
  {f \in content : f[1] \notin {g[1] : g \in tree[p]}} \cup tree[p]

\* _print_and_run("git", "--work-tree=...", "checkout", "overleaf/master", "--",
\*                pull_path, cwd=rootpath, check=True)
CheckoutPath ==
  /\ pc = "mirror_co"
  /\ LET pull_path == PullPaths[pull_idx] IN
     \E rc \in {"0", "1"} :
       /\ rc = "0" => /\ Launches(CheckoutCmd(pull_path))
                    /\ tracking[pull_path] # {}
       /\ log' = log \o <<Event("git checkout", pull_path, rc)>>
       /\ IF rc # "0"
          THEN /\ Raise("CalledProcessError")
               /\ UNCHANGED <<worktree, pull_idx, mirrored>>
          ELSE /\ worktree' = [worktree EXCEPT
                                 ![pull_path] = CheckedOut(@, tracking, pull_path)]
               /\ UNCHANGED error
               /\ IF pull_idx < Len(PullPaths)
                  THEN pc' = "mirror_rm" /\ pull_idx' = pull_idx + 1 /\ UNCHANGED mirrored
                  ELSE /\ pc' = "convert"
                       /\ mirrored' = Append(mirrored, worktree')
                       /\ UNCHANGED pull_idx
  /\ UNCHANGED <<sync_flag, remotes, environ, upstream, tracking, rst_dir, output_dir,
                 start_tree, start_remotes, runs, platform>>
  /\ UNCHANGED <<rlvars, cvvars>>

\* create_rst_sections(), as far as the files it reads and writes
CreateRstSections ==
  /\ pc = "convert"
  /\ LET tex_files == worktree["sections"]
         can_write == tex_files = {} \/ rst_dir
         can_read == "makefigs.tex" \in {f[1] : f \in worktree["figures"]}
     IN IF can_write /\ can_read
        THEN /\ worktree' = [worktree EXCEPT !["figures"] =
                  {f \in @ : f[1] # "makefigssanitized.tex"}
                    \cup {<<"makefigssanitized.tex", "generated">>}]
             /\ log' = log \o <<Event("convert", "", "0")>>
             /\ pc' = "clean"
             /\ UNCHANGED error
        ELSE /\ Raise("FileNotFoundError")
             /\ log' = log \o <<Event("convert", "", "FileNotFoundError")>>
             /\ UNCHANGED worktree
  /\ UNCHANGED <<sync_flag, remotes, environ, upstream, tracking, rst_dir, output_dir,
                 pull_idx, start_tree, start_remotes, mirrored, runs, platform>>
  /\ UNCHANGED <<rlvars, cvvars>>

\* rm_old_outputs()
RmOldOutputs ==
  /\ pc = "clean"
  /\ output_dir' = FALSE
  /\ log' = log \o <<Event("rm_old_outputs", "", IF output_dir THEN "removed" ELSE "absent")>>
  /\ pc' = "build"
  /\ UNCHANGED <<sync_flag, remotes, environ, upstream, tracking, worktree, rst_dir,
                 pull_idx, error, start_tree, start_remotes, mirrored, runs, platform>>
  /\ UNCHANGED <<rlvars, cvvars>>

\* subprocess.run([sys.executable, builder_script, paper_relpath], shell=True, ...):
\* with a list and shell=True the posix shell runs the first entry alone (the
\* interpreter, without the script); the Windows shell runs the whole line.
\* No check=True: the return code is not looked at.
RunBuilder ==
  /\ pc = "build"
  /\ \E os \in {"posix", "nt"}, rc \in {"0", "1"}, made \in BOOLEAN :
       /\ platform' = os
       /\ made => os = "nt"
       /\ output_dir' = made
       /\ log' = log \o <<Event("build", IF os = "nt" THEN "script" ELSE "interpreter", rc)>>
  /\ pc' = "reset"
  /\ UNCHANGED <<sync_flag, remotes, environ, upstream, tracking, worktree, rst_dir,
                 pull_idx, error, start_tree, start_remotes, mirrored, runs>>
  /\ UNCHANGED <<rlvars, cvvars>>

\* subprocess.run(["git", "reset"], capture_output=True, cwd=rootpath)
GitReset ==
  /\ pc = "reset"
  /\ \E rc \in {"0", "1"} : log' = log \o <<Event("git reset", "", rc)>>
  /\ pc' = "done"
  /\ UNCHANGED <<sync_flag, remotes, environ, upstream, tracking, worktree, rst_dir,
                 output_dir, pull_idx, error, start_tree, start_remotes, mirrored, runs,
                 platform>>
  /\ UNCHANGED <<rlvars, cvvars>>

\* The script is started again, against the same overleaf repository.
Invoke ==
  /\ pc \in {"done", "failed"}
  /\ runs < MaxRuns
  /\ runs' = runs + 1
  /\ sync_flag' \in BOOLEAN
  /\ pc' = "main"
  /\ pull_idx' = 1
  /\ error' = "none"
  /\ log' = <<>>
  /\ start_tree' = worktree
  /\ start_remotes' = remotes
  /\ platform' = ""
  /\ UNCHANGED <<remotes, environ, upstream, tracking, worktree, rst_dir, output_dir,
                 mirrored>>
  /\ UNCHANGED <<rlvars, cvvars>>

----------------------------------------------------------------------------
\* Regular expressions of create_rst_sections, on sequences of characters

NL == "\n"

\* The backquote character (a string of the module cannot hold one)
BQ == "<backquote>"

Str(c, n) == [k \in 1..n |-> c]

Max(S) == CHOOSE x \in S : \A y \in S : y <= x
Min(S) == CHOOSE x \in S : \A y \in S : x <= y

StartsWith(s, i, lit) ==
  /\ i + Len(lit) - 1 <= Len(s)
  /\ SubSeq(s, i, i + Len(lit) - 1) = lit

\* "." matches every character but the newline: the index of the first
\* newline at or after i, Len(s) + 1 when the last line has none
RECURSIVE NextNL(_, _)
NextNL(s, i) == IF i > Len(s) \/ s[i] = NL THEN i ELSE NextNL(s, i + 1)

\* (.*?)c : the first c at or after i with no newline before it, 0 if none
RECURSIVE LazyUpTo(_, _, _)
LazyUpTo(s, i, c) ==
  IF i > Len(s) THEN 0
  ELSE IF s[i] = c THEN i
  ELSE IF s[i] = NL THEN 0
  ELSE LazyUpTo(s, i + 1, c)

\* A match: the index of its last character (0: no match) and its groups
NoMatch == [end |-> 0, g1 |-> <<>>, g2 |-> <<>>]
Found(e, a, b) == [end |-> e, g1 |-> a, g2 |-> b]

\* command_regex(cmd): r"\\" + cmd + r"\{(.*?)\}", tried at position i
CommandMatch(cmd, s, i) ==
  LET open == <<"\\">> \o cmd \o <<"{">>
      e == IF StartsWith(s, i, open) THEN LazyUpTo(s, i + Len(open), "}") ELSE 0
  IN IF e = 0 THEN NoMatch ELSE Found(e, SubSeq(s, i + Len(open), e - 1), <<>>)

\* r"\\(opt)?cmd\{(.*?)\}": group 1 is opt or unmatched (empty here)
OptCommandMatch(opt, cmd, s, i) ==
  LET long == CommandMatch(opt \o cmd, s, i)
      short == CommandMatch(cmd, s, i)
  IN IF long.end # 0 THEN Found(long.end, opt, long.g1)
     ELSE IF short.end # 0 THEN Found(short.end, <<>>, short.g1)
     ELSE NoMatch

\* command_regex(cmd, num_args=2): r"\\cmd\{(.*?)\}\{(.*?)\}"
Command2Match(cmd, s, i) ==
  LET open == <<"\\">> \o cmd \o <<"{">>
      from == i + Len(open)
      eol == NextNL(s, from)
      mids == {j \in from..(eol - 1) :
                 /\ StartsWith(s, j, <<"}", "{">>)
                 /\ LazyUpTo(s, j + 2, "}") # 0}
  IN IF ~StartsWith(s, i, open) \/ mids = {} THEN NoMatch
     ELSE LET j == Min(mids) IN
          Found(LazyUpTo(s, j + 2, "}"), SubSeq(s, from, j - 1),
                SubSeq(s, j + 2, LazyUpTo(s, j + 2, "}") - 1))

S_label == <<"l", "a", "b", "e", "l">>

S_Fig == <<"F", "i", "g">>

S_make == <<"\\", "m", "a", "k", "e">>


\* r"(.*)\\label\{(.*?)\}": the greedy (.*) stays on the line of i and gives
\* back characters until a label command follows it: the last one of the line
LabelMatch(s, i) ==
  LET eol == NextNL(s, i)
      starts == {k \in i..(eol - 1) : CommandMatch(S_label, s, k).end # 0}
  IN IF starts = {} THEN NoMatch
     ELSE LET k == Max(starts)
              m == CommandMatch(S_label, s, k)
          IN Found(m.end, SubSeq(s, i, k - 1), m.g1)

\* r"(\\make.*Fig)": up to the last "Fig" of the line
MakeFigMatch(s, i) ==
  LET from == i + Len(S_make)
      eol == NextNL(s, from)
      figs == {k \in from..(eol - Len(S_Fig)) : StartsWith(s, k, S_Fig)}
  IN IF ~StartsWith(s, i, S_make) \/ figs = {} THEN NoMatch
     ELSE Found(Max(figs) + Len(S_Fig) - 1,
                SubSeq(s, i, Max(figs) + Len(S_Fig) - 1), <<>>)

\* r'``(.*?)"'
QuoteMatch(s, i) ==
  LET e == IF StartsWith(s, i, <<BQ, BQ>>) THEN LazyUpTo(s, i + 2, "\"") ELSE 0
  IN IF e = 0 THEN NoMatch ELSE Found(e, SubSeq(s, i + 2, e - 1), <<>>)

\* r"(^%.*)" under re.MULTILINE: ^ is the start of the text or of a line
CommentMatch(s, i) ==
  IF (i = 1 \/ s[i - 1] = NL) /\ s[i] = "%"
  THEN Found(NextNL(s, i) - 1, SubSeq(s, i, NextNL(s, i) - 1), <<>>)
  ELSE NoMatch

\* a pattern without groups or repetition
LiteralMatch(lit, s, i) ==
  IF StartsWith(s, i, lit) THEN Found(i + Len(lit) - 1, <<>>, <<>>) ELSE NoMatch

S_cite == <<"c", "i", "t", "e">>

S_section == <<"s", "e", "c", "t", "i", "o", "n">>

S_sub == <<"s", "u", "b">>

S_ref == <<"r", "e", "f">>

S_auto == <<"a", "u", "t", "o">>

S_emph == <<"e", "m", "p", "h">>

S_texttt == <<"t", "e", "x", "t", "t", "t">>

S_href == <<"h", "r", "e", "f">>

S_url == <<"u", "r", "l">>

S_footnote == <<"f", "o", "o", "t", "n", "o", "t", "e">>

\* env_regex("itemize") + "\n", the two alternatives of (begin|end)
S_beginItemize == <<"\\", "b", "e", "g", "i", "n", "{", "i", "t", "e", "m", "i", "z", "e", "}", "\n">>

S_endItemize == <<"\\", "e", "n", "d", "{", "i", "t", "e", "m", "i", "z", "e", "}", "\n">>

S_item == <<"\\", "i", "t", "e", "m">>

\* env_regex("lstlisting", begin=True, end=False)
S_beginListing == <<"\\", "b", "e", "g", "i", "n", "{", "l", "s", "t", "l", "i", "s", "t", "i", "n", "g",
                  "}">>

\* env_regex("lstlisting", begin=False, end=True)
S_endListing == <<"\\", "e", "n", "d", "{", "l", "s", "t", "l", "i", "s", "t", "i", "n", "g", "}">>


\* The keys of replace_spec, in the order of the dictionary
NumRules == 17

FootnoteRule == 13

\* pattern number r of replace_spec tried at position i of s
Match(r, s, i) ==
  CASE r = 1 -> CommandMatch(S_cite, s, i)
    [] r = 2 -> LabelMatch(s, i)
    [] r = 3 -> OptCommandMatch(S_sub, S_section, s, i)
    [] r = 4 -> OptCommandMatch(S_auto, S_ref, s, i)
    [] r = 5 -> CommandMatch(S_emph, s, i)
    [] r = 6 -> CommandMatch(S_texttt, s, i)
    [] r = 7 -> MakeFigMatch(s, i)
    [] r = 8 -> QuoteMatch(s, i)
    [] r = 9 -> LiteralMatch(<<"~">>, s, i)
    [] r = 10 -> CommentMatch(s, i)
    [] r = 11 -> Command2Match(S_href, s, i)
    [] r = 12 -> CommandMatch(S_url, s, i)
    [] r = 13 -> CommandMatch(S_footnote, s, i)
    [] r = 14 -> IF StartsWith(s, i, S_beginItemize)
                 THEN LiteralMatch(S_beginItemize, s, i)
                 ELSE LiteralMatch(S_endItemize, s, i)
    [] r = 15 -> LiteralMatch(S_item, s, i)
    [] r = 16 -> LiteralMatch(S_beginListing, s, i)
    [] r = 17 -> LiteralMatch(S_endListing, s, i)

NotColon(c) == c # ":"
NotUnderscore(c) == c # "_"

\* text.replace(":", "").replace("_", "")
SanitizedLabel(text) == SelectSeq(SelectSeq(text, NotColon), NotUnderscore)

\* f"{section_name}\n{replace_char * len(section_name)}"
SectionReplace(m) ==
  LET section_name == m.g2
      replace_char == IF m.g1 # <<>> THEN "-" ELSE "="
  IN section_name \o <<NL>> \o Str(replace_char, Len(section_name))

T_ref == <<":", "r", "e", "f", ":", BQ>>

T_Figure == <<"F", "i", "g", "u", "r", "e", " ">>

T_cite == <<":", "c", "i", "t", "e", ":", BQ>>

T_anchor == <<".", ".", " ", "_">>

T_raw == <<".", ".", " ", "r", "a", "w", ":", ":", " ", "l", "a", "t", "e", "x", "\n", "\n",
         " ", " ", " ", " ">>

T_commentOpen == <<"\n", ".", ".", "\n", " ", " ", " ", " ">>

T_marker == <<" ", "[", "#", "]", "_">>

T_endnote == <<".", ".", " ", "[", "#", "]", " ">>

T_python == <<BQ, BQ, BQ, "p", "y", "t", "h", "o", "n">>

T_fence == <<BQ, BQ, BQ>>

T_labelOpen == <<"\\", "l", "a", "b", "e", "l", "{">>


\* f"Figure :ref:`{replace_name}`" for \autoref, f":ref:`{replace_name}`" for \ref
RefReplace(m) ==
  (IF m.g1 # <<>> THEN T_Figure ELSE <<>>) \o T_ref \o SanitizedLabel(m.g2) \o <<BQ>>

\* f".. _{replace_name}:\n\n{match.group(1)}"
LabelReplace(m) == T_anchor \o SanitizedLabel(m.g2) \o <<":", NL, NL>> \o m.g1

\* the values of replace_spec: what match m of pattern r is replaced with
Replacement(r, m) ==
  CASE r = 1 -> T_cite \o m.g1 \o <<BQ>>
    [] r = 2 -> LabelReplace(m)
    [] r = 3 -> SectionReplace(m)
    [] r = 4 -> RefReplace(m)
    [] r = 5 -> <<"*">> \o m.g1 \o <<"*">>
    [] r = 6 -> <<BQ, BQ>> \o m.g1 \o <<BQ, BQ>>
    [] r = 7 -> T_raw \o m.g1
    [] r = 8 -> <<"\"">> \o m.g1 \o <<"\"">>
    [] r = 9 -> <<" ">>
    [] r = 10 -> T_commentOpen \o m.g1 \o <<NL>>
    [] r = 11 -> <<BQ>> \o m.g2 \o <<" ", "<">> \o m.g1 \o <<">", BQ, "_">>
    [] r = 12 -> <<BQ>> \o m.g1 \o <<" ", "<">> \o m.g1 \o <<">", BQ, "_">>
    [] r = 13 -> T_marker
    [] r = 14 -> <<>>
    [] r = 15 -> <<"*">>
    [] r = 16 -> T_python
    [] r = 17 -> T_fence

\* re.sub(pattern, replacement, s, flags=re.MULTILINE): the matches are found
\* from left to right, each search starting where the last match ended
RECURSIVE SubFrom(_, _, _)
SubFrom(r, s, i) ==
  IF i > Len(s) THEN <<>>
  ELSE LET m == Match(r, s, i) IN
       IF m.end = 0 THEN <<s[i]>> \o SubFrom(r, s, i + 1)
       ELSE Replacement(r, m) \o SubFrom(r, s, m.end + 1)

ReSub(r, s) == SubFrom(r, s, 1)

\* footnote_replace appends f".. [#] {match.group(1)}" for every match, in order
RECURSIVE FootnotesFrom(_, _)
FootnotesFrom(s, i) ==
  IF i > Len(s) THEN <<>>
  ELSE LET m == Match(FootnoteRule, s, i) IN
       IF m.end = 0 THEN FootnotesFrom(s, i + 1)
       ELSE <<T_endnote \o m.g1>> \o FootnotesFrom(s, m.end + 1)

\* "\n".join(lines)
RECURSIVE Join(_)
Join(lines) ==
  IF lines = <<>> THEN <<>>
  ELSE IF Len(lines) = 1 THEN lines[1]
  ELSE lines[1] \o <<NL>> \o Join(Tail(lines))

\* makefig_replace over r"\\label\{(.*?)\}" (no re.MULTILINE, no ^ in the pattern)
RECURSIVE SanitizeLabelsFrom(_, _)
SanitizeLabelsFrom(s, i) ==
  IF i > Len(s) THEN <<>>
  ELSE LET m == CommandMatch(S_label, s, i) IN
       IF m.end = 0 THEN <<s[i]>> \o SanitizeLabelsFrom(s, i + 1)
       ELSE T_labelOpen \o SanitizedLabel(m.g1) \o <<"}">> \o SanitizeLabelsFrom(s, m.end + 1)


----------------------------------------------------------------------------
\* Section files: the texts the converter is run on

\* A section file is made of at most MaxFrags of the fragments below.
MaxFrags == 3

\* Section files converted in one pass.
MaxFiles == 2

F_text == <<"S", "o", "m", "e", " ", "t", "e", "x", "t">>

F_newline == <<"\n">>

F_label == <<"\\", "l", "a", "b", "e", "l", "{", "s", "e", "c", ":", "i", "n", "t", "r", "o", "}">>

F_section == <<"\\", "s", "e", "c", "t", "i", "o", "n", "{", "R", "e", "s", "u", "l", "t", "s", "}">>

F_subsection == <<"\\", "s", "u", "b", "s", "e", "c", "t", "i", "o", "n", "{", "S", "e", "t", "u", "p",
                "}">>

F_sectionOpen == <<"\\", "s", "e", "c", "t", "i", "o", "n", "{">>

F_close == <<"}">>

F_quoted == <<BQ, BQ, "a", "\"">>

F_texttt == <<"\\", "t", "e", "x", "t", "t", "t", "{", "x", "}">>

F_said == <<" ", "\"", "q", "\"">>

F_footnoteA == <<"\\", "f", "o", "o", "t", "n", "o", "t", "e", "{", "a", "}">>

F_footnoteB == <<"\\", "f", "o", "o", "t", "n", "o", "t", "e", "{", "b", "\n", "c", "}">>

F_emph == <<"\\", "e", "m", "p", "h", "{", "i", "m", "p", "o", "r", "t", "a", "n", "t", "}">>

F_tilde == <<"~">>

F_autoref == <<"\\", "a", "u", "t", "o", "r", "e", "f", "{", "f", "i", "g", ":", "a", "_", "b", "}">>


Fragments ==
  {F_text, F_newline, F_label, F_section, F_subsection,
   F_sectionOpen, F_close, F_quoted, F_texttt, F_said,
   F_footnoteA, F_footnoteB, F_emph, F_tilde, F_autoref}


RECURSIVE Concat(_)
Concat(fs) == IF fs = <<>> THEN <<>> ELSE Head(fs) \o Concat(Tail(fs))

TexTexts ==
  {Concat(fs) : fs \in UNION {[1..n -> Fragments] : n \in 0..MaxFrags}}

M_figure == <<"\\", "l", "a", "b", "e", "l", "{", "f", "i", "g", ":", "a", "_", "b", "}">>


\* figures/makefigs.tex
MakefigsTexts == {<<>>, M_figure, M_figure \o <<NL>> \o F_label}

----------------------------------------------------------------------------
\* The converter: create_rst_sections

ConverterIdle ==
  /\ cv_pc = "idle" /\ files_done = 0 /\ tex_text = <<>> /\ file_text = <<>>
  /\ rule_idx = 1 /\ footnotes = <<>> /\ rst_text = <<>>
  /\ makefigs_text = <<>> /\ sanitized_text = <<>>

\* footnotes = []
InitConverter ==
  /\ cv_pc = "next_file" /\ files_done = 0 /\ tex_text = <<>> /\ file_text = <<>>
  /\ rule_idx = 1 /\ footnotes = <<>> /\ rst_text = <<>>
  /\ makefigs_text = <<>> /\ sanitized_text = <<>>

\* footnotes.clear()
Cleared(notes) == <<>>

\* for tex_file in paper_dir.glob("sections/*.tex"):
\*     footnotes.clear(); file_text = tex_file.read_text()
ReadTexFile ==
  /\ cv_pc = "next_file"
  /\ files_done < MaxFiles
  /\ \E text \in TexTexts :
       /\ tex_text' = text
       /\ file_text' = text
  /\ footnotes' = Cleared(footnotes)
  /\ rule_idx' = 1
  /\ cv_pc' = "rules"
  /\ UNCHANGED <<files_done, rst_text, makefigs_text, sanitized_text>>
  /\ UNCHANGED <<rlvars, plvars>>

\* for pattern, replacement in replace_spec.items():
\*     file_text = re.sub(pattern, replacement, file_text, flags=re.MULTILINE)
ApplyRule ==
  /\ cv_pc = "rules"
  /\ file_text' = ReSub(rule_idx, file_text)
  /\ footnotes' = IF rule_idx = FootnoteRule
                  THEN footnotes \o FootnotesFrom(file_text, 1)
                  ELSE footnotes
  /\ IF rule_idx < NumRules
     THEN rule_idx' = rule_idx + 1 /\ cv_pc' = "rules"
     ELSE rule_idx' = rule_idx /\ cv_pc' = "flush"
  /\ UNCHANGED <<files_done, tex_text, rst_text, makefigs_text, sanitized_text>>
  /\ UNCHANGED <<rlvars, plvars>>

\* file_text += "\n\n" + "\n".join(footnotes); rst_file.write_text(file_text)
WriteRstFile ==
  /\ cv_pc = "flush"
  /\ file_text' = file_text \o <<NL, NL>> \o Join(footnotes)
  /\ rst_text' = file_text'
  /\ files_done' = files_done + 1
  /\ cv_pc' = "written"
  /\ UNCHANGED <<tex_text, rule_idx, footnotes, makefigs_text, sanitized_text>>
  /\ UNCHANGED <<rlvars, plvars>>

\* back to the head of the loop over the section files: the texts of the file
\* just written are not read again, the list footnotes is still what it was
NextTexFile ==
  /\ cv_pc = "written"
  /\ cv_pc' = "next_file"
  /\ tex_text' = <<>>
  /\ file_text' = <<>>
  /\ rst_text' = <<>>
  /\ UNCHANGED <<files_done, rule_idx, footnotes, makefigs_text, sanitized_text>>
  /\ UNCHANGED <<rlvars, plvars>>

\* after the loop: sanitized_text = re.sub(r"\\label\{(.*?)\}", makefig_replace, ...)
SanitizeMakefigs ==
  /\ cv_pc = "next_file"
  /\ \E text \in MakefigsTexts :
       /\ makefigs_text' = text
       /\ sanitized_text' = SanitizeLabelsFrom(text, 1)
  /\ cv_pc' = "done"
  /\ UNCHANGED <<files_done, tex_text, file_text, rule_idx, footnotes, rst_text>>
  /\ UNCHANGED <<rlvars, plvars>>

----------------------------------------------------------------------------
\* Properties of the pipeline

Kinds(events) == {events[i].kind : i \in DOMAIN events}

\* what sync_overleaf executes
SyncKinds == {"git remote", "environ.get", "git remote add", "git fetch", "rm",
              "git checkout"}

\* the place of an executed step in the sequence sync, convert, clean, build
Rank(kind) ==
  CASE kind \in SyncKinds -> 1
    [] kind = "convert" -> 2
    [] kind = "rm_old_outputs" -> 3
    [] kind = "build" -> 4
    [] OTHER -> 5

Failed(e) == e.result \notin {"0", "removed", "absent"}

\* C1: the steps run in the order Remote Sync (only with --sync-overleaf),
\* Markup Converter, Output Cleaner, Build Invoker: without the flag nothing of
\* the sync is executed, and when the build is started the converter has
\* completed and, after it, the output directory has been cleaned.
C1_PipelineOrder ==
  /\ ~sync_flag => Kinds(log) \cap SyncKinds = {}
  /\ \A i, j \in DOMAIN log : i < j => Rank(log[i].kind) <= Rank(log[j].kind)
  /\ \A j \in DOMAIN log :
       log[j].kind = "build" =>
         \E i, k \in 1..(j - 1) :
           /\ i < k
           /\ log[i].kind = "convert" /\ ~Failed(log[i])
           /\ log[k].kind = "rm_old_outputs"
  /\ pc = "build" => ~output_dir
  /\ (sync_flag /\ "convert" \in Kinds(log)) =>
       \E i \in DOMAIN log :
         log[i] = Event("git checkout", PullPaths[Len(PullPaths)], "0")

C1_Witness ==
  /\ pc = "done" /\ sync_flag
  /\ \E i \in DOMAIN log : log[i].kind = "build" /\ log[i].arg = "script"
  /\ \E i \in DOMAIN log : log[i] = Event("rm_old_outputs", "", "removed")

\* the failure of a command of the sync ends the invocation on the spot
SyncFailurePropagates ==
  \A i \in DOMAIN log :
    (log[i].kind \in {"git remote add", "git fetch", "git checkout"} /\ Failed(log[i]))
      => /\ i = Len(log)
         /\ pc = "failed"
         /\ error \in {"CalledProcessError", "FileNotFoundError"}

BuildFailed == \E i \in DOMAIN log : log[i].kind = "build" /\ Failed(log[i])

\* C2 (as claimed): a failure of git remote add, git fetch, git checkout or of
\* the build script is an uncaught error and no later step is executed; a
\* failed build is reported as an error of the invocation.
C2_EveryFailurePropagates ==
  /\ SyncFailurePropagates
  /\ BuildFailed => pc \notin {"reset", "done"} /\ error # "none"

\* C2 (amended): a failure of git remote add, git fetch or git checkout is an
\* uncaught error and no later step is executed; the return code of the build
\* is not looked at: after a failed build git reset runs and the invocation
\* ends without an error.
C2_SyncFailurePropagatesBuildIgnored ==
  /\ SyncFailurePropagates
  /\ BuildFailed => pc \in {"reset", "done"} /\ error = "none"
  /\ (BuildFailed /\ pc = "done") => log[Len(log)].kind = "git reset"

C2_Witness ==
  /\ pc = "done" /\ BuildFailed
  /\ runs = 2
  /\ \E i \in DOMAIN log : log[i] = Event("git fetch", "overleaf", "0")

\* C3: a sync that finds no remote overleaf and OVERLEAF_CURRENT_REPO unset or
\* empty fails before any network command: no remote add, no fetch, no
\* checkout, no mirrored path deleted, no later step.
C3_MissingRemoteFailsFast ==
  (/\ sync_flag
   /\ "overleaf" \notin Names(start_remotes)
   /\ environ \in {Unset, ""}
   /\ pc \notin {"main", "ensure"})
    => /\ pc = "failed"
       /\ error = "ValueError"
       /\ Kinds(log) \subseteq {"git remote", "environ.get"}
       /\ worktree = start_tree
       /\ remotes = start_remotes

C3_Witness ==
  /\ pc = "failed" /\ error = "ValueError" /\ environ = ""
  /\ "overleaf" \notin Names(remotes)
  /\ worktree["sections"] # {}

\* C4: with no remote overleaf and OVERLEAF_CURRENT_REPO set, the remote is
\* registered with exactly that location before the fetch; whenever git fetch
\* overleaf is issued overleaf is a configured remote; with overleaf already
\* configured no remote add is issued and the variable is not read.
C4_RemoteRegisteredBeforeFetch ==
  /\ (/\ sync_flag
      /\ "overleaf" \notin Names(start_remotes)
      /\ environ \notin {Unset, ""}
      /\ pc \notin {"main", "ensure"})
       => <<"overleaf", environ>> \in remotes
  /\ "git fetch" \in Kinds(log) => "overleaf" \in Names(remotes)
  /\ "overleaf" \in Names(start_remotes) =>
       Kinds(log) \cap {"git remote add", "environ.get"} = {}

Checkouts(events) == SelectSeq(events, LAMBDA e : e.kind = "git checkout")

\* C5: for each path, in the order figures, sections, references.bib, main.tex,
\* the local copy is deleted and only then restored from overleaf/master; after
\* a sync that completed every path holds exactly the remote content, whatever
\* it held before, and every later sync against the unchanged remote ends in
\* the same state.
C5_Mirror ==
  /\ pc = "mirror_co" => worktree[PullPaths[pull_idx]] = {}
  /\ \A i \in DOMAIN Checkouts(log) : Checkouts(log)[i].arg = PullPaths[i]
  /\ (sync_flag /\ pc = "convert") =>
       /\ \A p \in PathSet : worktree[p] = upstream[p]
       /\ mirrored # <<>> /\ mirrored[Len(mirrored)] = worktree
  /\ \A i, j \in DOMAIN mirrored : mirrored[i] = mirrored[j]

C5_Witness ==
  /\ sync_flag /\ pc = "convert" /\ Len(mirrored) = 2
  /\ start_tree["figures"] # upstream["figures"]

\* C10: the root locator stops for every starting directory: when no ancestor
\* up to the filesystem root holds the marker it fails instead of walking on
\* (the parent of the filesystem root is the root itself).
C10_RootLocatorStopsAtRoot ==
  [][(rl_pc = "loop" /\ cur_rootpath = 0 /\ 0 \notin git_dirs) => rl_pc' # "loop"]_vars

----------------------------------------------------------------------------
\* Properties of the converter

Contains(s, lit) == \E i \in 1..Len(s) : StartsWith(s, i, lit)

Count(s, lit) == Cardinality({i \in 1..Len(s) : StartsWith(s, i, lit)})

EndsWith(s, lit) ==
  /\ Len(lit) <= Len(s)
  /\ SubSeq(s, Len(s) - Len(lit) + 1, Len(s)) = lit

Chars(s) == {s[i] : i \in DOMAIN s}

\* text without commands, quotes or other characters a rule looks for
Plain(s) == Chars(s) \cap {"\\", "{", "}", "~", "%", "\"", BQ, NL} = {}

\* the closing brace of an argument that starts at i, braces inside it matched
RECURSIVE CloseOf(_, _, _)
CloseOf(s, i, depth) ==
  IF i > Len(s) THEN 0
  ELSE IF s[i] = "{" THEN CloseOf(s, i + 1, depth + 1)
  ELSE IF s[i] = "}" THEN (IF depth = 0 THEN i ELSE CloseOf(s, i + 1, depth - 1))
  ELSE CloseOf(s, i + 1, depth)

\* the arguments of the commands \cmd{...} of a tex text, in order
RECURSIVE TexArgsFrom(_, _, _)
TexArgsFrom(cmd, s, i) ==
  LET open == <<"\\">> \o cmd \o <<"{">>
      close == CloseOf(s, i + Len(open), 0)
  IN IF i > Len(s) THEN <<>>
     ELSE IF StartsWith(s, i, open) /\ close # 0
     THEN <<SubSeq(s, i + Len(open), close - 1)>> \o TexArgsFrom(cmd, s, i + 1)
     ELSE TexArgsFrom(cmd, s, i + 1)

TexArgs(cmd, s) == TexArgsFrom(cmd, s, 1)

\* rules lo..hi of replace_spec applied in order
RECURSIVE ApplyRules(_, _, _)
ApplyRules(lo, hi, s) == IF lo > hi THEN s ELSE ApplyRules(lo + 1, hi, ReSub(lo, s))

\* C6: a file with N footnote commands gives an output with exactly N footnote
\* markers and, at its end, exactly N endnote definitions in the same order,
\* each with the body of its footnote; nothing of another file's footnotes.
\* (Stated for files whose only commands are footnotes.)
C6_FootnotesKept ==
  LET bodies == TexArgs(S_footnote, tex_text)
      defs == [k \in DOMAIN bodies |-> T_endnote \o bodies[k]]
  IN (/\ cv_pc = "written"
      /\ Count(tex_text, <<"{">>) = Len(bodies)
      /\ Count(tex_text, <<"}">>) = Len(bodies)
      /\ Count(tex_text, <<"\\">>) = Len(bodies))
       => /\ Count(rst_text, <<"[", "#", "]", "_">>) = Len(bodies)
          /\ Count(rst_text, T_endnote) = Len(bodies)
          /\ EndsWith(rst_text, <<NL, NL>> \o Join(defs))

\* the start of the line that position i is on
RECURSIVE LineStart(_, _)
LineStart(s, i) == IF i <= 1 \/ s[i - 1] = NL THEN i ELSE LineStart(s, i - 1)

\* C7: a label command \label{K} with content C on the line before it gives
\* the anchor ".. _K':" (K without ':' and '_'), a blank line, and then C.
\* (Stated for plain content C and a label at the start of its line.)
C7_LabelHoistedAbovePreviousLine ==
  cv_pc = "written" =>
    \A i \in 3..Len(tex_text) :
      LET m == CommandMatch(S_label, tex_text, i)
          content == SubSeq(tex_text, LineStart(tex_text, i - 1), i - 2)
      IN (/\ tex_text[i - 1] = NL
          /\ m.end # 0
          /\ content # <<>> /\ Plain(content))
           => Contains(rst_text,
                       T_anchor \o SanitizedLabel(m.g1) \o <<":", NL, NL>> \o content)

\* C8: \section{T} and \subsection{T} give, in the final output, the heading
\* text as it stands there followed on the next line by an underline of exactly
\* as many characters as that text, '=' for sections and '-' for subsections.
\* (Stated for heading texts without commands or braces, on one line.)
C8_UnderlineAsLongAsHeading ==
  cv_pc = "written" =>
    \A i \in 1..Len(tex_text) :
      LET m == Match(3, tex_text, i)
          char == IF m.g1 # <<>> THEN "-" ELSE "="
          final == ApplyRules(4, NumRules, m.g2)
          heading == final \o <<NL>> \o Str(char, Len(final))
      IN (/\ m.end # 0
          /\ Chars(m.g2) \cap {"\\", "{", "}"} = {})
           => \E p \in 1..Len(rst_text) :
                /\ StartsWith(rst_text, p, heading)
                /\ ~StartsWith(rst_text, p, heading \o <<char>>)

\* C9: every \texttt{X} is, in the final output, X between the inline-code
\* delimiters: no later rule rewrites what the typewriter rule produced.
\* (Stated for plain X.)
C9_TypewriterSpansSurvive ==
  cv_pc = "written" =>
    \A i \in 1..Len(tex_text) :
      LET m == CommandMatch(S_texttt, tex_text, i)
      IN (m.end # 0 /\ Plain(m.g1) /\ m.g1 # <<>>)
           => Contains(rst_text, <<BQ, BQ>> \o m.g1 \o <<BQ, BQ>>)

----------------------------------------------------------------------------
\* Specifications

\* _find_root_path alone, from every directory and every placement of the markers
InitRoot == InitRootLocator /\ PipelineIdle /\ ConverterIdle
NextRoot == WalkUp \/ MarkerFound \/ InvalidRoot \/ ReturnRoot
SpecRoot == InitRoot /\ [][NextRoot]_vars

\* the invocations of the script, once rootpath is found
Init == RootIdle /\ InitPipeline /\ ConverterIdle
Next ==
  \/ ParseArgs \/ EnsureOverleafRemoteExists \/ Fetch \/ DeleteLocalCopy
  \/ CheckoutPath \/ CreateRstSections \/ RmOldOutputs \/ RunBuilder \/ GitReset
  \/ Invoke
Spec == Init /\ [][Next]_vars

\* one pass of create_rst_sections over the section files
InitConvert == RootIdle /\ PipelineIdle /\ InitConverter
NextConvert ==
  ReadTexFile \/ ApplyRule \/ WriteRstFile \/ NextTexFile \/ SanitizeMakefigs
SpecConvert == InitConvert /\ [][NextConvert]_vars

====
